---- MODULE Spec2Model ----
(***************************************************************************)
(* GAA file organizer: rule matcher (src/processor/rules.go), worker pool  *)
(* (src/watcher/watcher.go, WorkerPool) and directory watcher              *)
(* (src/watcher/watcher.go, FileWatcher).                                  *)
(*                                                                         *)
(* Strings are sequences of one-character strings, so that extension,      *)
(* prefix, suffix and substring tests are computed, not assumed.           *)
(***************************************************************************)
EXTENDS Integers, Sequences, FiniteSets, TLC

(***************************************************************************)
(* Bounds of the model.                                                    *)
(***************************************************************************)
\* longest generated file name (characters)
MaxNameLen == 3
\* longest rule list handed to MatchRule
MaxRules == 2
\* workers of the pool (max_workers of the configuration)
NumWorkers == 2
\* goroutines that may be blocked inside Submit at the same time
NumProducers == 2
\* filesystem events the environment raises
MaxEvents == 3
\* MoveFile calls that run at the same time
NumMovers == 2
\* numbered copies name_1 .. name_MaxTaken that may be at the destination beforehand
MaxTaken == 2

\* generateUniqueName calls made one after the other for one destination path
MaxCalls == 3

(***************************************************************************)
(* strings / path/filepath                                                 *)
(***************************************************************************)
UpperChars == <<"A","B","C","D","E","F","G","H","I","J","K","L","M",
                "N","O","P","Q","R","S","T","U","V","W","X","Y","Z">>
LowerChars == <<"a","b","c","d","e","f","g","h","i","j","k","l","m",
                "n","o","p","q","r","s","t","u","v","w","x","y","z">>

ToLowerChar(c) ==
    IF \E i \in 1..Len(UpperChars) : UpperChars[i] = c
    THEN LowerChars[CHOOSE i \in 1..Len(UpperChars) : UpperChars[i] = c]
    ELSE c

ToUpperChar(c) ==
    IF \E i \in 1..Len(LowerChars) : LowerChars[i] = c
    THEN UpperChars[CHOOSE i \in 1..Len(LowerChars) : LowerChars[i] = c]
    ELSE c

\* strings.ToLower
ToLower(s) == [i \in 1..Len(s) |-> ToLowerChar(s[i])]

ToUpper(s) == [i \in 1..Len(s) |-> ToUpperChar(s[i])]

\* strings.HasPrefix
HasPrefix(s, prefix) ==
    /\ Len(prefix) <= Len(s)
    /\ SubSeq(s, 1, Len(prefix)) = prefix

\* strings.HasSuffix
HasSuffix(s, suffix) ==
    /\ Len(suffix) <= Len(s)
    /\ SubSeq(s, Len(s) - Len(suffix) + 1, Len(s)) = suffix

\* strings.Contains
Contains(s, substr) ==
    \E i \in 0..(Len(s) - Len(substr)) : SubSeq(s, i + 1, i + Len(substr)) = substr

\* strings.TrimSuffix: case-sensitive, removes the suffix only if present
TrimSuffix(s, suffix) ==
    IF HasSuffix(s, suffix) THEN SubSeq(s, 1, Len(s) - Len(suffix)) ELSE s

\* index of the last occurrence of character c in s, 0 if none
LastIndex(s, c) ==
    IF \E i \in 1..Len(s) : s[i] = c
    THEN CHOOSE i \in 1..Len(s) : s[i] = c /\ \A j \in (i+1)..Len(s) : s[j] # c
    ELSE 0

\* s without its trailing path separators
RECURSIVE StripSlashes(_)
StripSlashes(s) ==
    IF Len(s) > 0 /\ s[Len(s)] = "/" THEN StripSlashes(SubSeq(s, 1, Len(s) - 1)) ELSE s

\* filepath.Base: the last element of the path
Base(path) ==
    IF Len(path) = 0 THEN <<".">>
    ELSE LET p == StripSlashes(path) IN
         IF Len(p) = 0 THEN <<"/">>
         ELSE SubSeq(p, LastIndex(p, "/") + 1, Len(p))

\* filepath.Ext: the suffix beginning at the final dot of the last element
Ext(path) ==
    LET dot == LastIndex(path, ".") IN
    IF dot > LastIndex(path, "/") /\ dot > 0 THEN SubSeq(path, dot, Len(path)) ELSE <<>>

\* filepath.Dir: the path without its last element
Dir(path) ==
    LET slash == LastIndex(path, "/") IN
    IF slash = 0 THEN <<".">>
    ELSE IF slash = 1 THEN <<"/">>
    ELSE SubSeq(path, 1, slash - 1)

\* filepath.Join of a directory and a name
Join(dir, name) == dir \o <<"/">> \o name

DigitChars == <<"0", "1", "2", "3", "4", "5", "6", "7", "8", "9">>

\* fmt.Sprintf("%d", n) for n >= 0
RECURSIVE Itoa(_)
Itoa(n) ==
    IF n < 10 THEN <<DigitChars[n + 1]>>
    ELSE Itoa(n \div 10) \o <<DigitChars[(n % 10) + 1]>>

(***************************************************************************)
(* config.Rule                                                             *)
(***************************************************************************)
Rule(name, exts, contains, containsAll, startsWith, dest, strategy) ==
    [Name |-> name, Extensions |-> exts, NameContains |-> contains,
     NameContainsAll |-> containsAll, NameStartsWith |-> startsWith,
     Destination |-> dest, ConflictStrategy |-> strategy]

(***************************************************************************)
(* processor.MatchRule and its helpers                                     *)
(***************************************************************************)
\* for _, ruleExt := range extensions { if ext == ToLower(ruleExt) { return true } }
RECURSIVE matchesExtensionFrom(_, _, _)
matchesExtensionFrom(ext, extensions, k) ==
    IF k > Len(extensions) THEN FALSE
    ELSE IF ext = ToLower(extensions[k]) THEN TRUE
    ELSE matchesExtensionFrom(ext, extensions, k + 1)

matchesExtension(ext, extensions) == matchesExtensionFrom(ext, extensions, 1)

RECURSIVE matchesContainsFrom(_, _, _)
matchesContainsFrom(nameWithoutExt, patterns, k) ==
    IF k > Len(patterns) THEN FALSE
    ELSE IF Contains(nameWithoutExt, ToLower(patterns[k])) THEN TRUE
    ELSE matchesContainsFrom(nameWithoutExt, patterns, k + 1)

matchesContains(nameWithoutExt, patterns) == matchesContainsFrom(nameWithoutExt, patterns, 1)

RECURSIVE matchesContainsAllFrom(_, _, _)
matchesContainsAllFrom(nameWithoutExt, patterns, k) ==
    IF k > Len(patterns) THEN TRUE
    ELSE IF ~Contains(nameWithoutExt, ToLower(patterns[k])) THEN FALSE
    ELSE matchesContainsAllFrom(nameWithoutExt, patterns, k + 1)

matchesContainsAll(nameWithoutExt, patterns) ==
    matchesContainsAllFrom(nameWithoutExt, patterns, 1)

RECURSIVE matchesStartsWithFrom(_, _, _)
matchesStartsWithFrom(nameWithoutExt, prefixes, k) ==
    IF k > Len(prefixes) THEN FALSE
    ELSE IF HasPrefix(nameWithoutExt, ToLower(prefixes[k])) THEN TRUE
    ELSE matchesStartsWithFrom(nameWithoutExt, prefixes, k + 1)

matchesStartsWith(nameWithoutExt, prefixes) ==
    matchesStartsWithFrom(nameWithoutExt, prefixes, 1)

\* ext := strings.ToLower(filepath.Ext(filename))
FileExt(filePath) == ToLower(Ext(Base(filePath)))

\* nameWithoutExt := strings.ToLower(strings.TrimSuffix(filename, ext))
\* (ext is already lower-cased when it is trimmed from the unconverted filename)
NameWithoutExt(filePath) == ToLower(TrimSuffix(Base(filePath), FileExt(filePath)))

\* the loop body of MatchRule for rule i: TRUE when no "continue" is taken
ruleMatches(ext, nameWithoutExt, rule) ==
    LET extensionMatch == Len(rule.Extensions) = 0 \/ matchesExtension(ext, rule.Extensions)
        containsMatch == Len(rule.NameContains) = 0
                            \/ matchesContains(nameWithoutExt, rule.NameContains)
        containsAllMatch == Len(rule.NameContainsAll) = 0
                            \/ matchesContainsAll(nameWithoutExt, rule.NameContainsAll)
        startsWithMatch == Len(rule.NameStartsWith) = 0
                            \/ matchesStartsWith(nameWithoutExt, rule.NameStartsWith)
    IN  IF ~extensionMatch THEN FALSE
        ELSE IF ~containsMatch THEN FALSE
        ELSE IF ~containsAllMatch THEN FALSE
        ELSE IF ~startsWithMatch THEN FALSE
        ELSE TRUE

\* for i := range rules { ...; return rule }; return nil  (0 models nil)
RECURSIVE matchLoop(_, _, _, _)
matchLoop(ext, nameWithoutExt, ruleList, i) ==
    IF i > Len(ruleList) THEN 0
    ELSE IF ruleMatches(ext, nameWithoutExt, ruleList[i]) THEN i
    ELSE matchLoop(ext, nameWithoutExt, ruleList, i + 1)

\* a loop that keeps scanning and returns the last matching rule
RECURSIVE matchLoop_Last(_, _, _, _)
matchLoop_Last(ext, nameWithoutExt, ruleList, i) ==
    IF i > Len(ruleList) THEN 0
    ELSE LET later == matchLoop_Last(ext, nameWithoutExt, ruleList, i + 1) IN
         IF later # 0 THEN later
         ELSE IF ruleMatches(ext, nameWithoutExt, ruleList[i]) THEN i ELSE 0

MatchRule_Last(filePath, ruleList) ==
    matchLoop_Last(FileExt(filePath), NameWithoutExt(filePath), ruleList, 1)

\* MatchRule returns the index of the matching rule in ruleList, 0 for nil
MatchRule(filePath, ruleList) ==
    matchLoop(FileExt(filePath), NameWithoutExt(filePath), ruleList, 1)

\* the loop of the extension-only MatchRule: the first rule that lists ext
RECURSIVE extOnlyLoop(_, _, _)
extOnlyLoop(ext, ruleList, i) ==
    IF i > Len(ruleList) THEN 0
    ELSE IF matchesExtension(ext, ruleList[i].Extensions) THEN i
    ELSE extOnlyLoop(ext, ruleList, i + 1)

\* the extension-only MatchRule of the repository: nil for a file name without
\* extension, else the first rule whose extension list holds the extension
MatchRuleExtOnly(filePath, ruleList) ==
    IF FileExt(filePath) = <<>> THEN 0
    ELSE extOnlyLoop(FileExt(filePath), ruleList, 1)


(***************************************************************************)
(* State                                                                   *)
(***************************************************************************)
VARIABLES
    \* rule matcher: the arguments of a MatchRule call and what it returned
    filePath,      \* the file path argument
    rules,         \* the rule list argument
    matchIdx,      \* index MatchRule returned last (0 = nil, -1 = not called yet)
    baseIdx,       \* index MatchRule returned for the arguments as first given
    mphase,        \* "off" | "input" | "matched" | "recased"
    \* directory watcher (FileWatcher)
    recursive,     \* config.Recursive of the monitor
    watched,       \* paths registered with the fsnotify watcher
    loopPc,        \* watchLoop: "off" | "new" | "select" | "returned"
    doneClosed,    \* doneCh is closed (the fsnotify watcher is closed when watched is empty)
    delivered,     \* number of events the fsnotify watcher has delivered
    lastLog,       \* last line handleEvent logged: <<message, file>>
    readyFiles,    \* paths handleEvent logged as "File ready for processing"
    lastEvent,     \* the event handleEvent handled last, and whether it reached IsFileReady
    \* mover (MoveFile), one call per mover
    fs0,           \* the file system before the calls: path -> content
    fs,            \* the file system: path -> content
    strategy,      \* the conflictStrategy argument
    mpc,           \* position of each MoveFile call
    destPath,      \* destPath of each MoveFile call
    moveRet,       \* what each MoveFile call returned
    fault,         \* the operation of the file system that failed in each call
    warned,        \* the call logged "Failed to remove source file after copy"
    copied,        \* copyFile returned nil in the call
    \* worker pool (WorkerPool)
    started,       \* Start has been called
    jobsCh,        \* the buffered channel jobsCh: sequence of job ids
    jobsClosed,    \* close(wp.jobsCh) has run
    stopClosed,    \* close(wp.stopCh) has run
    wg,            \* counter of the WaitGroup
    wpc,           \* worker -> "idle" | "select" | "run" | "exited"
    cur,           \* worker -> the job it is executing, 0 if none
    blockedSends,  \* jobs held by Submit calls blocked in the send on the full channel
    sendPanicked,  \* a Submit call has panicked sending on the closed channel
    nextJob,       \* next job id handed to Submit
    stopPc,        \* the Stop call: "idle" | "closeStop" | "wait" | "returned"
    \* history of the pool, read by the properties only
    enqueued,      \* jobs that were placed in jobsCh
    unblocked,     \* a send that had blocked on the full channel has completed
    execCount,     \* job -> number of times a worker received it
    finished,      \* jobs whose execution ended (normally or by a recovered fault)
    faultWorker,   \* the worker that recovered from the latest fault, 0 if none
    \* single calls followed step by step
    readyCall,     \* an IsFileReady call: its position, counters and result
    uniqueCalls,   \* generateUniqueName calls: argument, existing files, results
    \* the process
    mainPc         \* main: "off" | "running" | "stopping" | "exited"

matchVars == <<filePath, rules, matchIdx, baseIdx, mphase>>

poolVars == <<started, jobsCh, jobsClosed, stopClosed, wg, wpc, cur, blockedSends,
              sendPanicked, nextJob, stopPc, enqueued, unblocked, execCount, finished,
              faultWorker>>

watchVars == <<recursive, watched, loopPc, doneClosed, delivered, lastLog, readyFiles,
               lastEvent>>

moveVars == <<fs0, fs, strategy, mpc, destPath, moveRet, fault, warned, copied>>

callVars == <<readyCall, uniqueCalls, mainPc>>

nonPoolVars == <<matchVars, watchVars, moveVars, callVars>>

nonMatchVars == <<poolVars, watchVars, moveVars, callVars>>

nonWatchVars == <<matchVars, poolVars, moveVars, callVars>>

nonMoveVars == <<matchVars, poolVars, watchVars, callVars>>

vars == <<matchVars, poolVars, watchVars, moveVars, callVars>>

(***************************************************************************)
(* Inputs of the rule matcher                                              *)
(***************************************************************************)
NameChars == {"a", "A", "."}

Names == UNION {[1..n -> NameChars] : n \in 1..MaxNameLen}

WatchedDir == <<"d", "/">>

ReportUpper == <<"R","E","P","O","R","T",".","P","D","F">>

FilePaths == {WatchedDir \o n : n \in Names \cup {ReportUpper, ToLower(ReportUpper)}}

NoPatterns == <<>>

SampleRules ==
    { Rule("ext",      <<<<".", "a">>>>, NoPatterns, NoPatterns, NoPatterns, "dst", "rename"),
      Rule("dotless",  <<<<"A">>>>, NoPatterns, NoPatterns, NoPatterns, "dst", "rename"),
      Rule("any",      NoPatterns, <<<<"a", ".">>, <<"a", "a">>>>, NoPatterns, NoPatterns,
           "dst", "rename"),
      Rule("dot",      NoPatterns, <<<<".">>>>, NoPatterns, NoPatterns, "dst", "rename"),
      Rule("all",      NoPatterns, NoPatterns, <<<<"A">>, <<".">>>>, NoPatterns,
           "dst", "rename"),
      Rule("prefix",   NoPatterns, NoPatterns, NoPatterns, <<<<"A">>>>, "dst", "rename"),
      Rule("mixed",    <<<<".", "A">>, <<".">>>>, <<<<"a">>>>, NoPatterns,
           <<<<".">>, <<"a", "a">>>>, "dst", "overwrite"),
      Rule("empty",    NoPatterns, NoPatterns, NoPatterns, NoPatterns, "dst", "rename"),
      Rule("report",   <<<<"p", "d", "f">>>>, NoPatterns, NoPatterns,
           <<<<"r", "e", "p", "o", "r", "t">>>>, "dst", "rename") }

RuleLists == UNION {[1..n -> SampleRules] : n \in 0..MaxRules}

\* a pattern in upper case or in lower case
Recase(s, upper) == IF upper THEN ToUpper(s) ELSE ToLower(s)

\* the same rule with every pattern in upper case or in lower case
RecaseRule(rule, upper) ==
    [rule EXCEPT
        !.Extensions = [k \in 1..Len(rule.Extensions) |-> Recase(rule.Extensions[k], upper)],
        !.NameContains =
            [k \in 1..Len(rule.NameContains) |-> Recase(rule.NameContains[k], upper)],
        !.NameContainsAll =
            [k \in 1..Len(rule.NameContainsAll) |-> Recase(rule.NameContainsAll[k], upper)],
        !.NameStartsWith =
            [k \in 1..Len(rule.NameStartsWith) |-> Recase(rule.NameStartsWith[k], upper)]]

LowerRules(ruleList) == [i \in 1..Len(ruleList) |-> RecaseRule(ruleList[i], FALSE)]

UpperRules(ruleList) == [i \in 1..Len(ruleList) |-> RecaseRule(ruleList[i], TRUE)]

\* the paths that differ from path in letter case only
LowerPath == [p \in FilePaths |-> ToLower(p)]

CaseVariants(path) == {p \in FilePaths : LowerPath[p] = LowerPath[path]}

\* no MatchRule call under way
InitMatchOff ==
    /\ filePath = <<>>
    /\ rules = <<>>
    /\ matchIdx = -1
    /\ baseIdx = -1
    /\ mphase = "off"

NoLog == <<"", <<>>>>

NoEvent == [Op |-> {}, Name |-> <<>>, Stat |-> "", Checked |-> FALSE]

\* no FileWatcher has been constructed
InitWatchOff ==
    /\ recursive = FALSE
    /\ watched = {}
    /\ loopPc = "off"
    /\ doneClosed = FALSE
    /\ delivered = 0
    /\ lastLog = NoLog
    /\ readyFiles = {}
    /\ lastEvent = NoEvent

\* no IsFileReady call is followed
InitReadyOff ==
    readyCall = [pc |-> "off", opens |-> <<>>, statOk |-> FALSE, size |-> 0,
                 i |-> 0, attempts |-> 0, sleeps |-> 0, ret |-> FALSE]

\* no generateUniqueName call is followed
InitUniqueOff ==
    uniqueCalls = [path |-> <<>>, files |-> {}, filesAt |-> <<>>, results |-> <<>>]

\* main is not followed
InitShutdownOff == mainPc = "off"

Movers == 1..NumMovers

\* a file system without files
EmptyFs == [p \in {} |-> ""]

\* no MoveFile call is made
InitMoveOff ==
    /\ fs0 = EmptyFs
    /\ fs = EmptyFs
    /\ strategy = ""
    /\ mpc = [m \in Movers |-> "off"]
    /\ destPath = [m \in Movers |-> <<>>]
    /\ moveRet = [m \in Movers |-> "off"]
    /\ fault = [m \in Movers |-> "none"]
    /\ warned = [m \in Movers |-> FALSE]
    /\ copied = [m \in Movers |-> FALSE]

(***************************************************************************)
(* Worker pool                                                             *)
(***************************************************************************)
Workers == 1..NumWorkers

\* jobsCh := make(chan Job, workers*2)
QueueCap == NumWorkers * 2

\* number of jobs handed to Submit: enough to keep NumWorkers workers busy, fill
\* the queue and block one more
MaxJobs == 7

Jobs == 1..MaxJobs

\* the rule list of the monitor whose files are submitted
PoolRules ==
    << Rule("ext", <<<<".", "a">>>>, NoPatterns, NoPatterns, NoPatterns, "dst", "rename") >>

\* Job{FilePath, Rules} of job id j: odd ids match PoolRules, even ids match no rule
Job(j) ==
    [FilePath |-> IF j % 2 = 1 THEN WatchedDir \o <<"a", ".", "a">>
                  ELSE WatchedDir \o <<"a", "a">>,
     Rules |-> PoolRules]

\* what the job function logs for job j: rule == nil, or the result of MoveFile
JobOutcomes(j) ==
    IF MatchRule(Job(j).FilePath, Job(j).Rules) = 0
    THEN {"no matching rule"}
    ELSE {"completed job", "failed to move file"}

Range(q) == {q[i] : i \in 1..Len(q)}

Busy(w) == wpc[w] = "run"

\* state after NewWorkerPool
InitPool ==
    /\ started = FALSE
    /\ jobsCh = <<>>
    /\ jobsClosed = FALSE
    /\ stopClosed = FALSE
    /\ wg = 0
    /\ wpc = [w \in Workers |-> "idle"]
    /\ cur = [w \in Workers |-> 0]
    /\ blockedSends = {}
    /\ sendPanicked = FALSE
    /\ nextJob = 1
    /\ stopPc = "idle"
    /\ enqueued = {}
    /\ unblocked = FALSE
    /\ execCount = [j \in Jobs |-> 0]
    /\ finished = {}
    /\ faultWorker = 0

\* Start: for i := 0; i < wp.workers; i++ { wp.wg.Add(1); go wp.worker(i) }
PoolStart ==
    /\ ~started
    /\ started' = TRUE
    /\ wg' = wg + NumWorkers
    /\ wpc' = [w \in Workers |-> "select"]
    /\ UNCHANGED <<jobsCh, jobsClosed, stopClosed, cur, blockedSends, sendPanicked, nextJob,
                   stopPc, enqueued, unblocked, execCount, finished, faultWorker>>
    /\ UNCHANGED nonPoolVars

\* a receive that leaves the job in the channel
WorkerReceive_Peek(w) ==
    /\ wpc[w] = "select"
    /\ Len(jobsCh) > 0
    /\ cur' = [cur EXCEPT ![w] = Head(jobsCh)]
    /\ wpc' = [wpc EXCEPT ![w] = "run"]
    /\ execCount' = [execCount EXCEPT ![Head(jobsCh)] = @ + 1]
    /\ UNCHANGED <<started, jobsCh, jobsClosed, stopClosed, wg, blockedSends, sendPanicked,
                   nextJob, stopPc, enqueued, unblocked, finished, faultWorker>>
    /\ UNCHANGED nonPoolVars

\* a receive that takes the newest job of the channel instead of the oldest
WorkerReceive_Newest(w) ==
    /\ wpc[w] = "select"
    /\ Len(jobsCh) > 0
    /\ cur' = [cur EXCEPT ![w] = jobsCh[Len(jobsCh)]]
    /\ jobsCh' = SubSeq(jobsCh, 1, Len(jobsCh) - 1)
    /\ wpc' = [wpc EXCEPT ![w] = "run"]
    /\ execCount' = [execCount EXCEPT ![jobsCh[Len(jobsCh)]] = @ + 1]
    /\ UNCHANGED <<started, jobsClosed, stopClosed, wg, blockedSends, sendPanicked,
                   nextJob, stopPc, enqueued, unblocked, finished, faultWorker>>
    /\ UNCHANGED nonPoolVars

\* case job, ok := <-wp.jobsCh (ok): the worker takes the oldest job
WorkerReceive(w) ==
    /\ wpc[w] = "select"
    /\ Len(jobsCh) > 0
    /\ cur' = [cur EXCEPT ![w] = Head(jobsCh)]
    /\ jobsCh' = Tail(jobsCh)
    /\ wpc' = [wpc EXCEPT ![w] = "run"]
    /\ execCount' = [execCount EXCEPT ![Head(jobsCh)] = @ + 1]
    /\ UNCHANGED <<started, jobsClosed, stopClosed, wg, blockedSends, sendPanicked,
                   nextJob, stopPc, enqueued, unblocked, finished, faultWorker>>
    /\ UNCHANGED nonPoolVars

\* return from worker: the deferred wp.wg.Done() runs
WorkerExit(w) ==
    /\ wpc' = [wpc EXCEPT ![w] = "exited"]
    /\ wg' = wg - 1
    /\ UNCHANGED <<started, jobsCh, jobsClosed, stopClosed, cur, blockedSends, sendPanicked,
                   nextJob, stopPc, enqueued, unblocked, execCount, finished, faultWorker>>
    /\ UNCHANGED nonPoolVars

\* case job, ok := <-wp.jobsCh (!ok): the channel is closed and drained
WorkerChannelClosed(w) ==
    /\ wpc[w] = "select"
    /\ jobsClosed
    /\ Len(jobsCh) = 0
    /\ WorkerExit(w)

\* case <-wp.stopCh: ready as soon as stopCh is closed, whatever jobsCh holds
WorkerStopSignal(w) ==
    /\ wpc[w] = "select"
    /\ stopClosed
    /\ WorkerExit(w)

\* the job function returns (normally, or after recover): back to the select
JobDone(w) ==
    /\ wpc' = [wpc EXCEPT ![w] = "select"]
    /\ cur' = [cur EXCEPT ![w] = 0]
    /\ finished' = finished \cup {cur[w]}

\* the job function returns without a fault: the worker is back at the select
JobReturns(w) ==
    /\ wpc[w] = "run"
    /\ JobDone(w)
    /\ UNCHANGED <<started, jobsCh, jobsClosed, stopClosed, wg, blockedSends, sendPanicked,
                   nextJob, stopPc, enqueued, unblocked, execCount, faultWorker>>
    /\ UNCHANGED nonPoolVars

\* the job function without a fault: rule := processor.MatchRule(job.FilePath,
\* job.Rules); if rule == nil, log and return; else err := processor.MoveFile(...)
\* and either result is logged; then the function returns
WorkerExecute(w) ==
    /\ wpc[w] = "run"
    /\ \E outcome \in JobOutcomes(cur[w]) : JobReturns(w)

\* a fault that is not recovered: the goroutine of the worker ends
WorkerPanic_Unrecovered(w) ==
    /\ Busy(w)
    /\ wpc' = [wpc EXCEPT ![w] = "exited"]
    /\ cur' = [cur EXCEPT ![w] = 0]
    /\ finished' = finished \cup {cur[w]}
    /\ wg' = wg - 1
    /\ faultWorker' = w
    /\ UNCHANGED <<started, jobsCh, jobsClosed, stopClosed, blockedSends, sendPanicked,
                   nextJob, stopPc, enqueued, unblocked, execCount>>
    /\ UNCHANGED nonPoolVars

\* a panic in MatchRule or MoveFile: the deferred recover() logs it and the
\* job function returns
WorkerPanic(w) ==
    /\ Busy(w)
    /\ JobDone(w)
    /\ faultWorker' = w
    /\ UNCHANGED <<started, jobsCh, jobsClosed, stopClosed, wg, blockedSends, sendPanicked,
                   nextJob, stopPc, enqueued, unblocked, execCount>>
    /\ UNCHANGED nonPoolVars

\* the send wp.jobsCh <- job completes
Enqueue(j) ==
    /\ jobsCh' = Append(jobsCh, j)
    /\ enqueued' = enqueued \cup {j}

\* a Submit that gives the job up when the channel is full
SubmitSelect_Drop ==
    /\ started
    /\ Cardinality(blockedSends) < NumProducers
    /\ nextJob <= MaxJobs
    /\ nextJob' = nextJob + 1
    /\ IF jobsClosed
       THEN /\ sendPanicked' = TRUE
            /\ UNCHANGED <<jobsCh, enqueued, blockedSends>>
       ELSE IF Len(jobsCh) < QueueCap
       THEN /\ Enqueue(nextJob)
            /\ UNCHANGED <<blockedSends, sendPanicked>>
       ELSE UNCHANGED <<jobsCh, enqueued, blockedSends, sendPanicked>>
    /\ UNCHANGED <<started, jobsClosed, stopClosed, wg, wpc, cur, stopPc, unblocked,
                   execCount, finished, faultWorker>>
    /\ UNCHANGED nonPoolVars

\* a Submit whose send succeeds whether or not the channel has room
SubmitSelect_Unbounded ==
    /\ started
    /\ Cardinality(blockedSends) < NumProducers
    /\ nextJob <= MaxJobs
    /\ nextJob' = nextJob + 1
    /\ IF jobsClosed
       THEN /\ sendPanicked' = TRUE
            /\ UNCHANGED <<jobsCh, enqueued, blockedSends>>
       ELSE /\ Enqueue(nextJob)
            /\ UNCHANGED <<blockedSends, sendPanicked>>
    /\ UNCHANGED <<started, jobsClosed, stopClosed, wg, wpc, cur, stopPc, unblocked,
                   execCount, finished, faultWorker>>
    /\ UNCHANGED nonPoolVars

\* Submit(job), the select, called by one of at most NumProducers goroutines
\* that are not inside Submit: send if the channel has room, else take the
\* default branch and go on to the blocking send; a send on a closed channel
\* panics
SubmitSelect ==
    /\ started
    /\ Cardinality(blockedSends) < NumProducers
    /\ nextJob <= MaxJobs
    /\ nextJob' = nextJob + 1
    /\ IF jobsClosed
       THEN /\ sendPanicked' = TRUE
            /\ UNCHANGED <<jobsCh, enqueued, blockedSends>>
       ELSE IF Len(jobsCh) < QueueCap
       THEN /\ Enqueue(nextJob)
            /\ UNCHANGED <<blockedSends, sendPanicked>>
       ELSE /\ blockedSends' = blockedSends \cup {nextJob}
            /\ UNCHANGED <<jobsCh, enqueued, sendPanicked>>
    /\ UNCHANGED <<started, jobsClosed, stopClosed, wg, wpc, cur, stopPc, unblocked,
                   execCount, finished, faultWorker>>
    /\ UNCHANGED nonPoolVars

\* a blocking send that returns at once without sending
SubmitBlockedSend_GiveUp(j) ==
    /\ j \in blockedSends
    /\ blockedSends' = blockedSends \ {j}
    /\ UNCHANGED <<started, jobsCh, jobsClosed, stopClosed, wg, wpc, cur, sendPanicked,
                   nextJob, stopPc, enqueued, unblocked, execCount, finished, faultWorker>>
    /\ UNCHANGED nonPoolVars

\* Submit(job), default branch: wp.jobsCh <- job blocks until the channel has
\* room; it panics if the channel is closed meanwhile
SubmitBlockedSend(j) ==
    /\ j \in blockedSends
    /\ blockedSends' = blockedSends \ {j}
    /\ IF jobsClosed
       THEN /\ sendPanicked' = TRUE
            /\ UNCHANGED <<jobsCh, enqueued, unblocked>>
       ELSE /\ Len(jobsCh) < QueueCap
            /\ Enqueue(j)
            /\ unblocked' = TRUE
            /\ UNCHANGED sendPanicked
    /\ UNCHANGED <<started, jobsClosed, stopClosed, wg, wpc, cur, nextJob, stopPc,
                   execCount, finished, faultWorker>>
    /\ UNCHANGED nonPoolVars

\* Stop: close(wp.jobsCh)
StopCloseJobs ==
    /\ started
    /\ stopPc = "idle"
    /\ jobsClosed' = TRUE
    /\ stopPc' = "closeStop"
    /\ UNCHANGED <<started, jobsCh, stopClosed, wg, wpc, cur, blockedSends, sendPanicked,
                   nextJob, enqueued, unblocked, execCount, finished, faultWorker>>
    /\ UNCHANGED nonPoolVars

\* Stop: close(wp.stopCh)
StopCloseStop ==
    /\ stopPc = "closeStop"
    /\ stopClosed' = TRUE
    /\ stopPc' = "wait"
    /\ UNCHANGED <<started, jobsCh, jobsClosed, wg, wpc, cur, blockedSends, sendPanicked,
                   nextJob, enqueued, unblocked, execCount, finished, faultWorker>>
    /\ UNCHANGED nonPoolVars

\* a Stop that does not wait for the workers
StopWait_NoWait ==
    /\ stopPc = "wait"
    /\ stopPc' = "returned"
    /\ UNCHANGED <<started, jobsCh, jobsClosed, stopClosed, wg, wpc, cur, blockedSends,
                   sendPanicked, nextJob, enqueued, unblocked, execCount, finished,
                   faultWorker>>
    /\ UNCHANGED nonPoolVars

\* Stop: wp.wg.Wait() returns when the counter is zero
StopWait ==
    /\ stopPc = "wait"
    /\ wg = 0
    /\ stopPc' = "returned"
    /\ UNCHANGED <<started, jobsCh, jobsClosed, stopClosed, wg, wpc, cur, blockedSends,
                   sendPanicked, nextJob, enqueued, unblocked, execCount, finished,
                   faultWorker>>
    /\ UNCHANGED nonPoolVars

Next ==
    \/ PoolStart
    \/ \E w \in Workers : WorkerReceive(w)
    \/ \E w \in Workers : WorkerChannelClosed(w)
    \/ \E w \in Workers : WorkerStopSignal(w)
    \/ \E w \in Workers : WorkerExecute(w)
    \/ \E w \in Workers : WorkerPanic(w)
    \/ SubmitSelect
    \/ \E j \in Jobs : SubmitBlockedSend(j)
    \/ StopCloseJobs
    \/ StopCloseStop
    \/ StopWait

Init ==
    /\ InitPool /\ InitMatchOff /\ InitWatchOff /\ InitMoveOff
    /\ InitReadyOff /\ InitUniqueOff /\ InitShutdownOff

Spec == Init /\ [][Next]_vars

\* the pool while no shutdown is requested: Stop is never called
NextRun ==
    \/ PoolStart
    \/ \E w \in Workers : WorkerReceive(w)
    \/ \E w \in Workers : WorkerExecute(w)
    \/ \E w \in Workers : WorkerPanic(w)
    \/ SubmitSelect
    \/ \E j \in Jobs : SubmitBlockedSend(j)

\* goroutines that can run do run: every worker takes a job that waits and
\* ends the job it executes (job executions terminate), and a blocked send
\* completes once the channel has room
RunFairness ==
    /\ \A w \in Workers : WF_vars(WorkerReceive(w))
    /\ \A w \in Workers : WF_vars(JobReturns(w))
    /\ \A j \in Jobs : WF_vars(SubmitBlockedSend(j))

RunSpec == Init /\ [][NextRun]_vars /\ RunFairness

(***************************************************************************)
(* Claims about the worker pool                                            *)
(***************************************************************************)
\* jobs handed to Submit so far
Submitted == 1..(nextJob - 1)

\* C2: with no shutdown requested, at every moment all jobs handed to Submit
\* so far are eventually processed by a worker, also the 2*W+1 jobs submitted
\* while all W workers are busy: none is dropped (checked under RunSpec).
C2_SubmittedJobsProcessed ==
    []<>(Submitted \subseteq finished)

\* all W workers are busy, 2*W jobs fill the queue and one more Submit blocks
C2_Witness ==
    /\ \A w \in Workers : Busy(w)
    /\ Len(jobsCh) = QueueCap
    /\ blockedSends # {}
    /\ Cardinality(Submitted \ finished) = 3 * NumWorkers + 1

Unfinished(j) == execCount[j] > 0 /\ j \notin finished

\* C4: when Stop has returned every worker has exited, and a worker exits only
\* between jobs: a job a worker has started is finished or still being
\* executed by a live worker, so shutdown interrupts no job half-way.
C4_StopWaitsForWorkers ==
    /\ stopPc = "returned" => \A w \in Workers : wpc[w] = "exited"
    /\ \A w \in Workers : wpc[w] = "exited" => cur[w] = 0
    /\ \A j \in Jobs : Unfinished(j) => \E w \in Workers : Busy(w) /\ cur[w] = j
    /\ stopPc = "returned" => \A j \in Jobs : ~Unfinished(j)

\* Stop has closed both channels and waits while a worker still executes a job
\* and another worker has already exited
C4_Witness ==
    /\ stopPc = "wait"
    /\ \E w \in Workers : Busy(w)
    /\ \E w \in Workers : wpc[w] = "exited"

\* C5: every job that is in the queue when Stop is called is processed by a
\* worker before Stop returns (no job can enter the queue after the call, so
\* at the return every job that entered the queue is processed).
C5_QueuedJobsProcessed ==
    stopPc = "returned" => \A j \in enqueued : j \in finished

\* workers whose goroutine has not ended
LiveWorkers == {w \in Workers : wpc[w] \in {"select", "run"}}

\* C6: a fault in a job does not end the worker. While no shutdown is
\* requested all W workers of a started pool are live, whatever faults
\* occurred; a worker exits only after Stop closed a channel; and the worker
\* that recovered from the latest fault is live until then.
C6_FaultKeepsWorker ==
    /\ (started /\ stopPc = "idle") => (LiveWorkers = Workers /\ wg = NumWorkers)
    /\ started => wg = Cardinality(LiveWorkers)
    /\ \A w \in Workers : wpc[w] = "exited" => jobsClosed
    /\ (faultWorker # 0 /\ ~jobsClosed) => faultWorker \in LiveWorkers

\* the worker that recovered from a fault is executing a later job
C6_Witness ==
    /\ faultWorker # 0
    /\ Busy(faultWorker)
    /\ stopPc = "idle"
    /\ LiveWorkers = Workers

\* number of places where job j is held: waiting in the queue (each occurrence
\* counts), or in the hands of a worker
Holders(j) ==
    Cardinality({i \in 1..Len(jobsCh) : jobsCh[i] = j})
        + Cardinality({w \in Workers : cur[w] = j})

\* C7: a job placed in the queue is taken by at most one worker and executed
\* at most once, and it is never lost: it waits in the queue (once, not yet
\* received), or exactly one worker executes it, or its single execution has
\* ended; so when the pool is idle with an empty queue every enqueued job was
\* executed exactly once.
C7_JobExecutedOnce ==
    \A j \in Jobs :
        /\ execCount[j] <= 1
        /\ Holders(j) <= 1
        /\ j \in enqueued =>
              \/ j \in Range(jobsCh) /\ execCount[j] = 0 /\ j \notin finished
              \/ (\E w \in Workers : Busy(w) /\ cur[w] = j) /\ execCount[j] = 1
                    /\ j \notin finished
              \/ j \in finished /\ execCount[j] = 1 /\ Holders(j) = 0
        /\ j \notin enqueued => (execCount[j] = 0 /\ Holders(j) = 0 /\ j \notin finished)

\* every worker executes a job of its own while earlier jobs are finished and
\* later ones wait
C7_Witness ==
    /\ \A w \in Workers : Busy(w)
    /\ \A v, w \in Workers : v # w => cur[v] # cur[w]
    /\ finished # {}
    /\ Len(jobsCh) > 0
    /\ stopPc = "idle"

\* the jobs some worker has started and not ended
Executing == {j \in Jobs : Unfinished(j)}

\* C24: the pool is bounded. In every reachable state of a pool of W workers
\* at most 2*W jobs wait in the queue, at most W jobs are being executed (by
\* at most W worker goroutines), and no worker holds two jobs.
C24_PoolBounded ==
    /\ Len(jobsCh) <= 2 * NumWorkers
    /\ Cardinality(Executing) <= NumWorkers
    /\ Cardinality({w \in Workers : Busy(w)}) <= NumWorkers
    /\ wg <= NumWorkers
    /\ \A j \in Executing : Cardinality({w \in Workers : cur[w] = j}) = 1

\* both bounds are met at once: 2*W jobs wait while W jobs are executed
C24_Witness ==
    /\ Len(jobsCh) = 2 * NumWorkers
    /\ Cardinality(Executing) = NumWorkers
    /\ blockedSends = {}

\* Submit as one Monitor's watch loop calls it: the loop is one goroutine, so
\* a Submit begins only after the previous one has returned
MonitorSubmit ==
    /\ blockedSends = {}
    /\ SubmitSelect

\* the pool fed by the watch loop of a single Monitor
NextMonitor ==
    \/ PoolStart
    \/ \E w \in Workers : WorkerReceive(w)
    \/ \E w \in Workers : WorkerChannelClosed(w)
    \/ \E w \in Workers : WorkerStopSignal(w)
    \/ \E w \in Workers : WorkerExecute(w)
    \/ \E w \in Workers : WorkerPanic(w)
    \/ MonitorSubmit
    \/ \E j \in Jobs : SubmitBlockedSend(j)
    \/ StopCloseJobs
    \/ StopCloseStop
    \/ StopWait

SpecMonitor == Init /\ [][NextMonitor]_vars

C32_SubmitNeverFaults ==
    ~sendPanicked

(***************************************************************************)
(* Directory watcher (FileWatcher)                                         *)
(***************************************************************************)
\* monitor.SourcePath
SourcePath == <<"d">>

SubDir == WatchedDir \o <<"s", "u", "b">>

\* rule.Destination of a rule of the monitor: a directory below the source path
DestInTree == SubDir

\* file names the environment raises events for: a plain file, a hidden
\* name, a temporary file in upper case, a directory and a file inside it
EventNames ==
    { WatchedDir \o <<"a", ".", "a">>,
      WatchedDir \o <<".", "a">>,
      WatchedDir \o <<"A", ".", "P", "A", "R", "T">>,
      SubDir,
      Join(SubDir, <<"a", ".", "a">>) }

\* fsnotify.Op is a bit set
EventOps ==
    { {"Create"}, {"Write"}, {"Chmod"}, {"Remove"}, {"Write", "Chmod"} }

\* results of os.Stat in handleEvent
StatResults == {"file", "dir", "notexist", "error"}

\* results of os.OpenFile in IsFileReady
OpenResults == {"ok", "notexist", "permission", "busy"}

tempExtensions ==
    << <<".", "t", "m", "p">>,
       <<".", "t", "e", "m", "p">>,
       <<".", "c", "r", "d", "o", "w", "n", "l", "o", "a", "d">>,
       <<".", "p", "a", "r", "t">>,
       <<".", "d", "o", "w", "n", "l", "o", "a", "d">>,
       <<".", "p", "a", "r", "t", "i", "a", "l">> >>

isTempFile(filename) ==
    \E k \in 1..Len(tempExtensions) : HasSuffix(ToLower(filename), tempExtensions[k])

maxRetries == 3

\* IsFileReady from attempt i on: opens[i + 1] is what os.OpenFile returns on
\* attempt i, restatOk whether the os.Stat after a successful open succeeds
RECURSIVE IsFileReadyFrom(_, _, _)
IsFileReadyFrom(opens, restatOk, i) ==
    IF i >= maxRetries THEN FALSE
    ELSE IF opens[i + 1] = "ok" THEN restatOk
    ELSE IF opens[i + 1] \in {"notexist", "permission"} THEN FALSE
    ELSE IsFileReadyFrom(opens, restatOk, i + 1)

IsFileReady(opens, restatOk) == IsFileReadyFrom(opens, restatOk, 0)

\* directories that may lie below the source path when the watcher is created
TreeDirs == {SubDir, Join(SourcePath, <<".", "a">>)}

\* addPath: the path itself and, if recursive, every directory the walk of the
\* tree finds whose base name does not start with "."
addPath(path, tree, rec) ==
    {path} \cup (IF rec
                 THEN {d \in tree : ~HasPrefix(Base(d), <<".">>) /\ d # path}
                 ELSE {})

\* state after NewFileWatcher: the source path is registered, and with it the
\* subdirectories found by the walk when the monitor is recursive
InitWatch ==
    /\ recursive \in BOOLEAN
    /\ \E tree \in SUBSET TreeDirs : watched = addPath(SourcePath, tree, recursive)
    /\ loopPc = "new"
    /\ doneClosed = FALSE
    /\ delivered = 0
    /\ lastLog = NoLog
    /\ readyFiles = {}
    /\ lastEvent = NoEvent

\* FileWatcher.Start
WatcherStart ==
    /\ loopPc = "new"
    /\ loopPc' = "select"
    /\ UNCHANGED <<recursive, watched, doneClosed, delivered, lastLog, readyFiles, lastEvent>>
    /\ UNCHANGED nonWatchVars

Log(msg, file) == lastLog' = <<msg, file>>

\* handleEvent for a directory that watches every new directory, recursive or not
handleDir_IgnoresRecursive(op, name) ==
    IF "Create" \in op
    THEN /\ watched' = watched \cup {name}
         /\ Log("Now watching new subdirectory", name)
    ELSE UNCHANGED <<watched, lastLog>>

\* handleEvent for a directory
handleDir(op, name) ==
    IF recursive /\ "Create" \in op
    THEN \/ /\ watched' = watched \cup {name}
            /\ Log("Now watching new subdirectory", name)
         \/ /\ Log("Failed to watch new subdirectory", name)
            /\ UNCHANGED watched
    ELSE UNCHANGED <<watched, lastLog>>

\* what IsFileReady can return, over all results of its os.OpenFile and os.Stat calls
IsFileReadyResults ==
    {IsFileReady(opens, restatOk) : opens \in [1..maxRetries -> OpenResults],
                                    restatOk \in BOOLEAN}

\* handleEvent for a regular file that passed the filters
handleFile(name) ==
    \E ready \in IsFileReadyResults :
        IF ready
        THEN /\ Log("File ready for processing", Base(name))
             /\ readyFiles' = readyFiles \cup {name}
        ELSE /\ Log("File not ready or locked", Base(name))
             /\ UNCHANGED readyFiles

\* handleEvent returned before the readiness check, or reached it
Handled(op, name, stat, checked) ==
    lastEvent' = [Op |-> op, Name |-> name, Stat |-> stat, Checked |-> checked]

\* handleEvent without the hidden-file filter
handleEvent_NoHiddenFilter(op, name, stat) ==
    IF "Chmod" \in op \/ ("Create" \notin op /\ "Write" \notin op) \/ stat # "file"
    THEN /\ Handled(op, name, stat, FALSE)
         /\ UNCHANGED <<watched, lastLog, readyFiles>>
    ELSE IF isTempFile(Base(name)) THEN
        /\ Log("Ignoring temporary file", Base(name))
        /\ Handled(op, name, stat, FALSE)
        /\ UNCHANGED <<watched, readyFiles>>
    ELSE
        /\ handleFile(name)
        /\ Handled(op, name, stat, TRUE)
        /\ UNCHANGED watched

handleEvent(op, name, stat) ==
    IF "Chmod" \in op THEN
        /\ Handled(op, name, stat, FALSE)
        /\ UNCHANGED <<watched, lastLog, readyFiles>>
    ELSE IF "Create" \notin op /\ "Write" \notin op THEN
        /\ Handled(op, name, stat, FALSE)
        /\ UNCHANGED <<watched, lastLog, readyFiles>>
    ELSE IF stat = "notexist" THEN
        /\ Handled(op, name, stat, FALSE)
        /\ UNCHANGED <<watched, lastLog, readyFiles>>
    ELSE IF stat = "error" THEN
        /\ Log("Failed to stat file", name)
        /\ Handled(op, name, stat, FALSE)
        /\ UNCHANGED <<watched, readyFiles>>
    ELSE IF stat = "dir" THEN
        /\ handleDir(op, name)
        /\ Handled(op, name, stat, FALSE)
        /\ UNCHANGED readyFiles
    ELSE IF HasPrefix(Base(name), <<".">>) THEN
        /\ Log("Ignoring hidden file", Base(name))
        /\ Handled(op, name, stat, FALSE)
        /\ UNCHANGED <<watched, readyFiles>>
    ELSE IF isTempFile(Base(name)) THEN
        /\ Log("Ignoring temporary file", Base(name))
        /\ Handled(op, name, stat, FALSE)
        /\ UNCHANGED <<watched, readyFiles>>
    ELSE
        /\ handleFile(name)
        /\ Handled(op, name, stat, TRUE)
        /\ UNCHANGED watched

\* watcher.Close() has been called: the watcher subscribes to nothing and its
\* channels are closed
watcherClosed == watched = {}

\* watchLoop receives an event from watcher.Events and handles it; the select
\* may take this case also when doneCh is closed already
WatchLoopEvent ==
    /\ loopPc = "select"
    /\ ~watcherClosed
    /\ delivered < MaxEvents
    /\ delivered' = delivered + 1
    /\ \E op \in EventOps, name \in EventNames, stat \in StatResults :
          /\ Dir(name) \in watched
          /\ handleEvent(op, name, stat)
    /\ UNCHANGED <<recursive, loopPc, doneClosed>>
    /\ UNCHANGED nonWatchVars

\* watchLoop receives an error from watcher.Errors and logs it
WatchLoopError ==
    /\ loopPc = "select"
    /\ ~watcherClosed
    /\ delivered < MaxEvents
    /\ delivered' = delivered + 1
    /\ Log("Watcher error", <<>>)
    /\ UNCHANGED <<recursive, watched, loopPc, doneClosed, readyFiles, lastEvent>>
    /\ UNCHANGED nonWatchVars

\* watchLoop finds doneCh or the channels of the watcher closed and returns
WatchLoopReturn ==
    /\ loopPc = "select"
    /\ doneClosed
    /\ loopPc' = "returned"
    /\ UNCHANGED <<recursive, watched, doneClosed, delivered, lastLog, readyFiles, lastEvent>>
    /\ UNCHANGED nonWatchVars

\* FileWatcher.Stop, first step: close(fw.doneCh)
WatcherStop ==
    /\ loopPc # "off"
    /\ ~doneClosed
    /\ doneClosed' = TRUE
    /\ UNCHANGED <<recursive, watched, loopPc, delivered, lastLog, readyFiles, lastEvent>>
    /\ UNCHANGED nonWatchVars

\* FileWatcher.Stop, second step: fw.watcher.Close()
WatcherClose ==
    /\ doneClosed
    /\ ~watcherClosed
    /\ watched' = {}
    /\ UNCHANGED <<recursive, loopPc, doneClosed, delivered, lastLog, readyFiles, lastEvent>>
    /\ UNCHANGED nonWatchVars

NextWatch ==
    \/ WatcherStart
    \/ WatchLoopEvent
    \/ WatchLoopError
    \/ WatchLoopReturn
    \/ WatcherStop
    \/ WatcherClose

\* main: watchers are created and started; no WorkerPool is created
InitMain ==
    /\ InitWatch /\ InitPool /\ InitMatchOff /\ InitMoveOff
    /\ InitReadyOff /\ InitUniqueOff /\ InitShutdownOff

SpecWatch == InitMain /\ [][NextWatch]_vars

\* C19: destination directories are excluded from monitoring: no event for a
\* file that lies in a rule's destination directory is taken up for
\* processing, also when the destination lies inside a recursively watched
\* source tree, and the destination directory is not registered with the
\* watcher.
C19_DestinationExcluded ==
    /\ \A f \in readyFiles : Dir(f) # DestInTree
    /\ lastEvent.Checked => Dir(lastEvent.Name) # DestInTree

\* the base name is not hidden and has no temporary-file suffix
AdmittedName(path) ==
    /\ Base(path)[1] # "."
    /\ \A k \in 1..Len(tempExtensions) :
          ~HasSuffix(ToLower(Base(path)), tempExtensions[k])

\* C20: an event reaches the readiness check only if its operation includes
\* create or write, the path exists at stat time and is not a directory, the
\* base name does not start with "." and the lower-cased name ends with none
\* of .tmp, .temp, .crdownload, .part, .download, .partial; and a file is
\* taken as ready only by an event that reached the readiness check.
C20_OnlyAdmittedEventsChecked ==
    /\ [](lastEvent.Checked =>
            /\ "Create" \in lastEvent.Op \/ "Write" \in lastEvent.Op
            /\ lastEvent.Stat = "file"
            /\ AdmittedName(lastEvent.Name))
    /\ [](\A f \in readyFiles : AdmittedName(f))
    /\ [][readyFiles' # readyFiles =>
            (lastEvent'.Checked /\ readyFiles' = readyFiles \cup {lastEvent'.Name})]_vars

\* a create event for a regular, visible file was checked and found ready
C20_Witness ==
    /\ lastEvent.Checked
    /\ "Create" \in lastEvent.Op
    /\ lastEvent.Name \in readyFiles
    /\ lastLog[1] = "File ready for processing"

\* C25: the first filter discards only pure chmod events. An event whose
\* operations include create or write, also one that includes chmod as well,
\* goes on to the remaining filters: when it names an existing regular file
\* whose name is neither hidden nor temporary it reaches the readiness check.
C25_ChmodWithWriteAdmitted ==
    ( /\ lastEvent.Op \cap {"Create", "Write"} # {}
      /\ lastEvent.Stat = "file"
      /\ AdmittedName(lastEvent.Name) )
    => lastEvent.Checked

C22_NothingHandledAfterStop ==
    [][doneClosed =>
        (lastEvent' = lastEvent /\ readyFiles' = readyFiles /\ watched' \subseteq watched)]_vars

\* C1: every file that passed the filters of handleEvent and the readiness
\* check has been handed to the worker pool as a Job carrying its path, so
\* that a worker can take it.
C1_ReadyFileSubmitted ==
    \A f \in readyFiles : \E j \in Submitted : Job(j).FilePath = f

(***************************************************************************)
(* main from the start of the watchers to its return (SpecShutdown): it     *)
(* creates and starts the watchers, waits for the signal, stops the         *)
(* watchers and returns; it creates no WorkerPool                          *)
(***************************************************************************)
InitShutdown ==
    /\ InitWatch /\ InitPool /\ InitMatchOff /\ InitMoveOff
    /\ InitReadyOff /\ InitUniqueOff
    /\ mainPc = "running"

\* sig := <-sigChan: the interrupt or termination signal arrives, after the
\* watchers have been started
MainSignal ==
    /\ mainPc = "running"
    /\ loopPc # "new"
    /\ mainPc' = "stopping"
    /\ UNCHANGED <<readyCall, uniqueCalls>>
    /\ UNCHANGED <<matchVars, poolVars, watchVars, moveVars>>

\* w.Start() in the loop over the monitors
MainWatcherStart ==
    /\ mainPc = "running"
    /\ WatcherStart

\* w.Stop() in the loop over the watchers: close(fw.doneCh)
MainWatcherStop ==
    /\ mainPc = "stopping"
    /\ WatcherStop

\* w.Stop() in the loop over the watchers: fw.watcher.Close()
MainWatcherClose ==
    /\ mainPc = "stopping"
    /\ WatcherClose

\* the goroutine of the watch loop runs as long as the process does
MainWatchLoop ==
    /\ mainPc # "exited"
    /\ \/ WatchLoopEvent
       \/ WatchLoopError
       \/ WatchLoopReturn

\* the loop over the watchers is done: main logs "Daemon stopped" and
\* returns, which ends the process
MainReturn ==
    /\ mainPc = "stopping"
    /\ watcherClosed
    /\ mainPc' = "exited"
    /\ UNCHANGED <<readyCall, uniqueCalls>>
    /\ UNCHANGED <<matchVars, poolVars, watchVars, moveVars>>

NextShutdown ==
    \/ MainWatcherStart
    \/ MainSignal
    \/ MainWatcherStop
    \/ MainWatcherClose
    \/ MainWatchLoop
    \/ MainReturn

SpecShutdown == InitShutdown /\ [][NextShutdown]_vars

\* C33: the process exits only after the shutdown trigger has stopped every
\* started watcher and the worker pool as well: when main has returned, doneCh
\* and the fsnotify watcher are closed, Stop of the pool has returned and all
\* its workers have exited, no job being left in execution.
C33_ExitAfterWatchersAndPoolStopped ==
    mainPc = "exited" =>
        /\ doneClosed
        /\ watcherClosed
        /\ stopPc = "returned"
        /\ \A w \in Workers : wpc[w] = "exited"
        /\ \A j \in Jobs : ~Unfinished(j)

(***************************************************************************)
(* One IsFileReady call, step by step (SpecReady): handleEvent has passed   *)
(* the filters and calls IsFileReady for the file                          *)
(***************************************************************************)
\* the path argument
CheckedFile == Join(SourcePath, <<"a", ".", "a">>)

\* fileInfo.Size() of the os.Stat after a successful open
FileSizes == {0, 1}

\* the call begins: what each os.OpenFile will return, whether the os.Stat
\* succeeds and the size it reports are the environment's
InitReady ==
    /\ InitPool /\ InitMatchOff /\ InitWatchOff /\ InitMoveOff /\ InitUniqueOff /\ InitShutdownOff
    /\ \E opens \in [1..maxRetries -> OpenResults], statOk \in BOOLEAN, size \in FileSizes :
          readyCall = [pc |-> "open", opens |-> opens, statOk |-> statOk, size |-> size,
                       i |-> 0, attempts |-> 0, sleeps |-> 0, ret |-> FALSE]

\* an attempt that sleeps after every failed open, the last one too
IsFileReadyOpen_SleepsAfterLast ==
    /\ readyCall.pc = "open"
    /\ readyCall.i < maxRetries
    /\ LET r == readyCall.opens[readyCall.i + 1]
           c == [readyCall EXCEPT !.attempts = @ + 1]
       IN  IF r = "ok" THEN
               /\ readyCall' = [c EXCEPT !.pc = "returned", !.ret = c.statOk]
               /\ UNCHANGED lastLog
           ELSE IF r \in {"notexist", "permission"} THEN
               /\ readyCall' = [c EXCEPT !.pc = "returned", !.ret = FALSE]
               /\ UNCHANGED lastLog
           ELSE
               /\ readyCall' = [c EXCEPT !.pc = "sleep"]
               /\ UNCHANGED lastLog
    /\ UNCHANGED <<recursive, watched, loopPc, doneClosed, delivered, readyFiles, lastEvent>>
    /\ UNCHANGED <<matchVars, poolVars, moveVars, uniqueCalls, mainPc>>

\* an attempt that takes a missing or inaccessible file for a busy one
IsFileReadyOpen_RetriesMissing ==
    /\ readyCall.pc = "open"
    /\ readyCall.i < maxRetries
    /\ LET r == readyCall.opens[readyCall.i + 1]
           c == [readyCall EXCEPT !.attempts = @ + 1]
       IN  IF r = "ok" THEN
               /\ readyCall' = [c EXCEPT !.pc = "returned", !.ret = c.statOk]
               /\ UNCHANGED lastLog
           ELSE IF c.i < maxRetries - 1 THEN
               /\ readyCall' = [c EXCEPT !.pc = "sleep"]
               /\ UNCHANGED lastLog
           ELSE
               /\ readyCall' = [c EXCEPT !.i = @ + 1]
               /\ UNCHANGED lastLog
    /\ UNCHANGED <<recursive, watched, loopPc, doneClosed, delivered, readyFiles, lastEvent>>
    /\ UNCHANGED <<matchVars, poolVars, moveVars, uniqueCalls, mainPc>>

\* one pass of the loop body up to the sleep: os.OpenFile; on success Close
\* and os.Stat, then return; on not-exist or permission return false; else go
\* to the sleep unless this was the last attempt
IsFileReadyOpen ==
    /\ readyCall.pc = "open"
    /\ readyCall.i < maxRetries
    /\ LET r == readyCall.opens[readyCall.i + 1]
           c == [readyCall EXCEPT !.attempts = @ + 1]
       IN  IF r = "ok" THEN
               /\ readyCall' = [c EXCEPT !.pc = "returned", !.ret = c.statOk]
               /\ IF ~c.statOk THEN Log("File disappeared during check", CheckedFile)
                  ELSE IF c.size = 0 THEN Log("File has zero size", CheckedFile)
                  ELSE UNCHANGED lastLog
           ELSE IF r \in {"notexist", "permission"} THEN
               /\ readyCall' = [c EXCEPT !.pc = "returned", !.ret = FALSE]
               /\ Log("File not accessible", CheckedFile)
           ELSE IF c.i < maxRetries - 1 THEN
               /\ readyCall' = [c EXCEPT !.pc = "sleep"]
               /\ Log("File busy, retrying...", CheckedFile)
           ELSE
               /\ readyCall' = [c EXCEPT !.i = @ + 1]
               /\ UNCHANGED lastLog
    /\ UNCHANGED <<recursive, watched, loopPc, doneClosed, delivered, readyFiles, lastEvent>>
    /\ UNCHANGED <<matchVars, poolVars, moveVars, uniqueCalls, mainPc>>

\* time.Sleep(fw.delay) returns and the loop goes on with i++
IsFileReadySleep ==
    /\ readyCall.pc = "sleep"
    /\ readyCall' = [readyCall EXCEPT !.pc = "open", !.sleeps = @ + 1, !.i = @ + 1]
    /\ UNCHANGED watchVars
    /\ UNCHANGED <<matchVars, poolVars, moveVars, uniqueCalls, mainPc>>

\* the loop condition i < maxRetries fails: return false
IsFileReadyGiveUp ==
    /\ readyCall.pc = "open"
    /\ readyCall.i >= maxRetries
    /\ readyCall' = [readyCall EXCEPT !.pc = "returned", !.ret = FALSE]
    /\ UNCHANGED watchVars
    /\ UNCHANGED <<matchVars, poolVars, moveVars, uniqueCalls, mainPc>>

\* handleEvent after IsFileReady returned: it logs the outcome and returns
handleEventChecked ==
    /\ readyCall.pc = "returned"
    /\ readyCall' = [readyCall EXCEPT !.pc = "handled"]
    /\ IF readyCall.ret
       THEN /\ Log("File ready for processing", Base(CheckedFile))
            /\ readyFiles' = readyFiles \cup {CheckedFile}
       ELSE /\ Log("File not ready or locked", Base(CheckedFile))
            /\ UNCHANGED readyFiles
    /\ UNCHANGED <<recursive, watched, loopPc, doneClosed, delivered, lastEvent>>
    /\ UNCHANGED <<matchVars, poolVars, moveVars, uniqueCalls, mainPc>>

NextReady ==
    \/ IsFileReadyOpen
    \/ IsFileReadySleep
    \/ IsFileReadyGiveUp
    \/ handleEventChecked

SpecReady == InitReady /\ [][NextReady]_vars

\* IsFileReady has returned
ReadyReturned == readyCall.pc \in {"returned", "handled"}

\* every os.OpenFile of the call fails for another reason than a missing file
\* or a denied permission
AlwaysBusy == \A k \in 1..maxRetries : readyCall.opens[k] = "busy"

\* attempt k is the first whose os.OpenFile does not fail on a busy file
FirstDecisive(k) ==
    /\ readyCall.opens[k] # "busy"
    /\ \A j \in 1..(k - 1) : readyCall.opens[j] = "busy"

\* C21: a file that stays busy. IsFileReady never makes more than 3 open
\* attempts nor more than 2 waits; when every attempt fails on a busy file it
\* returns false after exactly 3 attempts separated by 2 waits, handleEvent
\* logs the file as not ready, marks no file ready and submits no Job.
C21_BusyFileNotReady ==
    /\ readyCall.attempts <= 3
    /\ readyCall.sleeps <= 2
    /\ readyCall.sleeps <= readyCall.attempts
    /\ (ReadyReturned /\ AlwaysBusy) =>
          /\ readyCall.attempts = 3
          /\ readyCall.sleeps = 2
          /\ readyCall.ret = FALSE
    /\ (readyCall.pc = "handled" /\ AlwaysBusy) =>
          /\ lastLog = <<"File not ready or locked", Base(CheckedFile)>>
          /\ readyFiles = {}
          /\ enqueued = {} /\ jobsCh = <<>> /\ nextJob = 1

\* the file was busy at all three attempts and handleEvent has given it up
C21_Witness ==
    /\ readyCall.pc = "handled"
    /\ AlwaysBusy
    /\ readyCall.attempts = 3
    /\ readyCall.sleeps = 2
    /\ lastLog[1] = "File not ready or locked"

\* C26: when an open attempt fails on a missing file or a denied permission
\* IsFileReady returns false at that attempt, with no wait after it and no
\* further attempt; when an open attempt succeeds it returns true if the
\* following os.Stat succeeds, whatever the size, zero included (and false if
\* it fails); it waits only after an attempt that failed on a busy file; the
\* result is the one handleEvent acts on.
C26_MissingFailsAtOnceEmptyIsReady ==
    /\ ReadyReturned =>
          \A k \in 1..maxRetries :
              FirstDecisive(k) =>
                  /\ readyCall.attempts = k
                  /\ readyCall.sleeps = k - 1
                  /\ readyCall.opens[k] \in {"notexist", "permission"} => ~readyCall.ret
                  /\ readyCall.opens[k] = "ok" => readyCall.ret = readyCall.statOk
    /\ readyCall.pc = "sleep" => readyCall.opens[readyCall.i + 1] = "busy"
    /\ ReadyReturned => readyCall.ret = IsFileReady(readyCall.opens, readyCall.statOk)
    /\ readyCall.pc = "handled" => (readyCall.ret <=> CheckedFile \in readyFiles)

\* an empty file that was busy at the first attempt is found ready at the
\* second
C26_Witness ==
    /\ readyCall.pc = "handled"
    /\ readyCall.opens[1] = "busy"
    /\ readyCall.opens[2] = "ok"
    /\ readyCall.statOk
    /\ readyCall.size = 0
    /\ readyCall.ret
    /\ CheckedFile \in readyFiles

(***************************************************************************)
(* Mover (MoveFile, handleConflict, generateUniqueName, copyFile)           *)
(***************************************************************************)
\* base name of every source file
MoveName == <<"a", ".", "a">>

\* the destDir argument
MoveDest == <<"o", "u", "t">>

\* the sourcePath argument of call m: one source directory per call
SrcPath(m) == Join(<<"s">> \o Itoa(m), MoveName)

\* content of the source file of call m, of a file that was at the destination
\* before the calls, of a file just created, and the mark of a directory
Data(m) == ToString(m)

OldData == "old"

EmptyData == ""

DirMark == "dir"

\* destDir/name
PlainDest == Join(MoveDest, MoveName)

\* destDir/name_k.ext
NumberedDest(k) == Join(MoveDest, <<"a", "_">> \o Itoa(k) \o <<".", "a">>)

\* files that may be at the destination before the calls
DestCandidates == {PlainDest} \cup {NumberedDest(k) : k \in 1..MaxTaken}

Strategies == {"rename", "overwrite", "skip"}

maxCounter == 1000

\* time.Now().Format("20060102_150405")
Timestamp == <<"T">>

\* generateUniqueName, from the given counter on; files are the existing
\* paths. The loop probes newPath for counter, counter + 1, ... and returns the
\* first one that does not exist; when the counter has passed maxCounter it
\* returns the timestamp name, which it does not probe.
uniqueNameFrom(files, path, counter) ==
    LET dir == Dir(path)
        ext == Ext(path)
        nameWithoutExt == TrimSuffix(Base(path), ext)
        newPath(k) == Join(dir, nameWithoutExt \o <<"_">> \o Itoa(k) \o ext)
    IN  IF \E k \in counter..maxCounter : newPath(k) \notin files
        THEN newPath(CHOOSE k \in counter..maxCounter :
                        /\ newPath(k) \notin files
                        /\ \A j \in counter..(k - 1) : newPath(j) \in files)
        ELSE Join(dir, nameWithoutExt \o <<"_">> \o Timestamp \o ext)

generateUniqueName(files, path) == uniqueNameFrom(files, path, 1)

\* handleConflict that treats every strategy but rename as overwrite
handleConflict_AlwaysOverwrite(files, path, strat) ==
    IF strat = "rename"
    THEN [path |-> generateUniqueName(files, path), err |-> "nil"]
    ELSE [path |-> path, err |-> "nil"]

\* handleConflict that keeps the destination path for rename
handleConflict_KeepsName(files, path, strat) ==
    IF strat \in {"overwrite", "rename"}
    THEN [path |-> path, err |-> "nil"]
    ELSE [path |-> <<>>, err |-> "unknown conflict strategy"]

\* handleConflict that picks a fresh name for overwrite as it does for rename
handleConflict_NeverOverwrites(files, path, strat) ==
    IF strat \in {"overwrite", "rename"}
    THEN [path |-> generateUniqueName(files, path), err |-> "nil"]
    ELSE [path |-> <<>>, err |-> "unknown conflict strategy"]

\* handleConflict: the new destPath and the error
handleConflict(files, path, strat) ==
    IF strat = "overwrite" THEN [path |-> path, err |-> "nil"]
    ELSE IF strat = "rename"
         THEN [path |-> generateUniqueName(files, path), err |-> "nil"]
    ELSE [path |-> <<>>, err |-> "unknown conflict strategy"]

Files == DOMAIN fs

\* the file system with content c at path p, and without path p
WriteFile(f, p, c) == [q \in (DOMAIN f) \cup {p} |-> IF q = p THEN c ELSE f[q]]

RemoveFile(f, p) == [q \in (DOMAIN f) \ {p} |-> f[q]]

\* the call goes on at position pc
MoveGoto(m, pc) ==
    /\ mpc' = [mpc EXCEPT ![m] = pc]
    /\ UNCHANGED moveRet

\* the call returns ret
MoveReturn(m, ret) ==
    /\ mpc' = [mpc EXCEPT ![m] = "done"]
    /\ moveRet' = [moveRet EXCEPT ![m] = ret]

\* an operation of the file system fails and MoveFile returns the error
MoveFails(m, op, ret) ==
    /\ fault' = [fault EXCEPT ![m] = op]
    /\ MoveReturn(m, ret)

\* MoveFile without the sourceInfo.IsDir() check
MoveStatSource_MovesDirectories(m) ==
    /\ mpc[m] = "statSource"
    /\ \/ /\ SrcPath(m) \notin Files
          /\ MoveReturn(m, "skipped")
          /\ UNCHANGED <<fault, destPath>>
       \/ /\ SrcPath(m) \in Files
          /\ MoveFails(m, "stat", "failed to stat source file")
          /\ UNCHANGED destPath
       \/ /\ SrcPath(m) \in Files
          /\ destPath' = [destPath EXCEPT ![m] = Join(MoveDest, Base(SrcPath(m)))]
          /\ MoveGoto(m, "mkdirAll")
          /\ UNCHANGED fault
    /\ UNCHANGED <<fs0, fs, strategy, warned, copied>>
    /\ UNCHANGED nonMoveVars

\* MoveFile: os.Stat(sourcePath) and the construction of destPath
MoveStatSource(m) ==
    /\ mpc[m] = "statSource"
    /\ \/ /\ SrcPath(m) \notin Files
          /\ MoveReturn(m, "skipped")
          /\ UNCHANGED <<fault, destPath>>
       \/ /\ SrcPath(m) \in Files
          /\ MoveFails(m, "stat", "failed to stat source file")
          /\ UNCHANGED destPath
       \/ /\ SrcPath(m) \in Files
          /\ fs[SrcPath(m)] = DirMark
          /\ MoveReturn(m, "skipped")
          /\ UNCHANGED <<fault, destPath>>
       \/ /\ SrcPath(m) \in Files
          /\ fs[SrcPath(m)] # DirMark
          /\ destPath' = [destPath EXCEPT ![m] = Join(MoveDest, Base(SrcPath(m)))]
          /\ MoveGoto(m, "mkdirAll")
          /\ UNCHANGED fault
    /\ UNCHANGED <<fs0, fs, strategy, warned, copied>>
    /\ UNCHANGED nonMoveVars

\* MoveFile: os.MkdirAll(destDir) creates the destination directory unless it
\* exists
MoveMkdirAll(m) ==
    /\ mpc[m] = "mkdirAll"
    /\ \/ /\ MoveFails(m, "mkdirAll", "failed to create destination directory")
          /\ UNCHANGED fs
       \/ /\ MoveGoto(m, "statDest")
          /\ fs' = IF MoveDest \in Files THEN fs ELSE WriteFile(fs, MoveDest, DirMark)
          /\ UNCHANGED fault
    /\ UNCHANGED <<fs0, strategy, destPath, warned, copied>>
    /\ UNCHANGED nonMoveVars

\* MoveFile: os.Stat(destPath) and, when the file exists, handleConflict
MoveStatDest(m) ==
    /\ mpc[m] = "statDest"
    /\ IF destPath[m] \in Files
       THEN LET c == handleConflict(Files, destPath[m], strategy) IN
            IF c.err = "nil"
            THEN /\ destPath' = [destPath EXCEPT ![m] = c.path]
                 /\ MoveGoto(m, "rename")
            ELSE /\ MoveReturn(m, c.err)
                 /\ UNCHANGED destPath
       ELSE /\ MoveGoto(m, "rename")
            /\ UNCHANGED destPath
    /\ UNCHANGED <<fs0, fs, strategy, fault, warned, copied>>
    /\ UNCHANGED nonMoveVars

\* the file system after os.Rename(src, dst) has succeeded
Renamed(f, src, dst) == RemoveFile(WriteFile(f, dst, f[src]), src)

\* os.Rename that leaves the source in place
MoveRename_KeepsSource(m) ==
    /\ mpc[m] = "rename"
    /\ SrcPath(m) \in Files
    /\ fs' = WriteFile(fs, destPath[m], fs[SrcPath(m)])
    /\ MoveReturn(m, "moved")
    /\ UNCHANGED <<fs0, strategy, destPath, fault, warned, copied>>
    /\ UNCHANGED nonMoveVars

\* MoveFile: os.Rename(sourcePath, destPath): done, cross-device error, other error
MoveRename(m) ==
    /\ mpc[m] = "rename"
    /\ \/ /\ SrcPath(m) \in Files
          /\ fs' = Renamed(fs, SrcPath(m), destPath[m])
          /\ MoveReturn(m, "moved")
          /\ UNCHANGED fault
       \/ /\ SrcPath(m) \in Files
          /\ MoveGoto(m, "copyOpen")
          /\ UNCHANGED <<fs, fault>>
       \/ /\ MoveFails(m, "rename", "failed to move file")
          /\ UNCHANGED fs
    /\ UNCHANGED <<fs0, strategy, destPath, warned, copied>>
    /\ UNCHANGED nonMoveVars

\* the source file cannot be opened, or the destination file cannot be created
copyFails(m, op) == MoveFails(m, op, "failed to copy file")

\* copyFile: os.Open(sourcePath)
MoveCopyOpen(m) ==
    /\ mpc[m] = "copyOpen"
    /\ \/ copyFails(m, "open")
       \/ /\ SrcPath(m) \in Files
          /\ MoveGoto(m, "copyCreate")
          /\ UNCHANGED fault
    /\ UNCHANGED <<fs0, fs, strategy, destPath, warned, copied>>
    /\ UNCHANGED nonMoveVars

\* copyFile: os.Create(destPath) creates or truncates the destination file
MoveCopyCreate(m) ==
    /\ mpc[m] = "copyCreate"
    /\ \/ copyFails(m, "create") /\ UNCHANGED fs
       \/ /\ fs' = WriteFile(fs, destPath[m], EmptyData)
          /\ MoveGoto(m, "copyData")
          /\ UNCHANGED fault
    /\ UNCHANGED <<fs0, strategy, destPath, warned, copied>>
    /\ UNCHANGED nonMoveVars

\* io.Copy that fails and takes the source file with it
MoveCopyData_LosesSource(m) ==
    /\ mpc[m] = "copyData"
    /\ copyFails(m, "copy")
    /\ fs' = RemoveFile(RemoveFile(fs, destPath[m]), SrcPath(m))
    /\ UNCHANGED <<fs0, strategy, destPath, warned, copied>>
    /\ UNCHANGED nonMoveVars

\* copyFile: io.Copy; on failure the partial destination file is removed
MoveCopyData(m) ==
    /\ mpc[m] = "copyData"
    /\ \/ /\ copyFails(m, "copy")
          /\ fs' = RemoveFile(fs, destPath[m])
       \/ /\ SrcPath(m) \in Files
          /\ fs' = WriteFile(fs, destPath[m], fs[SrcPath(m)])
          /\ MoveGoto(m, "copySync")
          /\ UNCHANGED fault
    /\ UNCHANGED <<fs0, strategy, destPath, warned, copied>>
    /\ UNCHANGED nonMoveVars

\* copyFile: destFile.Sync, os.Chmod and return nil
MoveCopySync(m) ==
    /\ mpc[m] = "copySync"
    /\ \/ copyFails(m, "sync") /\ UNCHANGED copied
       \/ /\ copied' = [copied EXCEPT ![m] = TRUE]
          /\ MoveGoto(m, "removeSource")
          /\ UNCHANGED fault
    /\ UNCHANGED <<fs0, fs, strategy, destPath, warned>>
    /\ UNCHANGED nonMoveVars

\* a failing os.Remove that makes MoveFile return the error
MoveRemoveSource_Fails(m) ==
    /\ mpc[m] = "removeSource"
    /\ MoveFails(m, "remove", "failed to remove source file")
    /\ UNCHANGED <<fs0, fs, strategy, destPath, warned, copied>>
    /\ UNCHANGED nonMoveVars

\* MoveFile: os.Remove(sourcePath) after the copy; a failure is only logged
MoveRemoveSource(m) ==
    /\ mpc[m] = "removeSource"
    /\ \/ /\ fs' = RemoveFile(fs, SrcPath(m))
          /\ UNCHANGED <<fault, warned>>
       \/ /\ fault' = [fault EXCEPT ![m] = "remove"]
          /\ warned' = [warned EXCEPT ![m] = TRUE]
          /\ UNCHANGED fs
    /\ MoveReturn(m, "moved")
    /\ UNCHANGED <<fs0, strategy, destPath, copied>>
    /\ UNCHANGED nonMoveVars

NextMove ==
    \/ \E m \in Movers : MoveStatSource(m)
    \/ \E m \in Movers : MoveMkdirAll(m)
    \/ \E m \in Movers : MoveStatDest(m)
    \/ \E m \in Movers : MoveRename(m)
    \/ \E m \in Movers : MoveCopyOpen(m)
    \/ \E m \in Movers : MoveCopyCreate(m)
    \/ \E m \in Movers : MoveCopyData(m)
    \/ \E m \in Movers : MoveCopySync(m)
    \/ \E m \in Movers : MoveRemoveSource(m)

\* the file system before the calls: the sources in srcs with the given kind,
\* and the files pre at the destination
InitialFs(srcs, kind, pre) ==
    [p \in {SrcPath(m) : m \in srcs} \cup pre |->
        IF p \in pre THEN OldData
        ELSE IF kind = "dir" THEN DirMark
        ELSE Data(CHOOSE m \in srcs : SrcPath(m) = p)]

\* the file system f with the destination directory, which is there whenever
\* a file is in it
WithDestDir(f, hasDir) ==
    IF hasDir \/ (DOMAIN f) \cap DestCandidates # {}
    THEN WriteFile(f, MoveDest, DirMark)
    ELSE f

\* the calls of the movers in active start on file system f with strategy strat
MoveCalls(active, f, strat) ==
    /\ fs0 = f
    /\ fs = f
    /\ strategy = strat
    /\ mpc = [m \in Movers |-> IF m \in active THEN "statSource" ELSE "off"]
    /\ destPath = [m \in Movers |-> <<>>]
    /\ moveRet = [m \in Movers |-> IF m \in active THEN "running" ELSE "off"]
    /\ fault = [m \in Movers |-> "none"]
    /\ warned = [m \in Movers |-> FALSE]
    /\ copied = [m \in Movers |-> FALSE]

\* one MoveFile call: any strategy, any source, any files at the destination
InitMove ==
    /\ InitPool /\ InitMatchOff /\ InitWatchOff /\ InitReadyOff /\ InitUniqueOff /\ InitShutdownOff
    /\ \E kind \in {"file", "dir", "missing"}, pre \in SUBSET DestCandidates,
          strat \in Strategies, hasDir \in BOOLEAN :
          MoveCalls({1},
                    WithDestDir(InitialFs(IF kind = "missing" THEN {} ELSE {1}, kind, pre),
                                hasDir),
                    strat)

SpecMove == InitMove /\ [][NextMove]_vars

\* NumMovers workers run MoveFile at the same time, on regular files of the same
\* base name, with the same destination and the strategy rename
InitMoveRace ==
    /\ InitPool /\ InitMatchOff /\ InitWatchOff /\ InitReadyOff /\ InitUniqueOff /\ InitShutdownOff
    /\ \E pre \in SUBSET DestCandidates, hasDir \in BOOLEAN :
          MoveCalls(Movers, WithDestDir(InitialFs(Movers, "file", pre), hasDir), "rename")

SpecMoveRace == InitMoveRace /\ [][NextMove]_vars

(***************************************************************************)
(* Claims about the mover (SpecMove: one call; SpecMoveRace: concurrent)   *)
(***************************************************************************)
Returned(m) == mpc[m] = "done"

ReturnedNil(m) == Returned(m) /\ moveRet[m] \in {"moved", "skipped"}

ReturnedError(m) == Returned(m) /\ ~ReturnedNil(m)

\* the source of call m was a regular file before the call
RegularSource(m) == SrcPath(m) \in DOMAIN fs0 /\ fs0[SrcPath(m)] # DirMark

\* the source of call m is where it was, with the content it had
SourceIntact(m) == SrcPath(m) \in Files /\ fs[SrcPath(m)] = fs0[SrcPath(m)]

\* the files that were at the destination before the calls are unchanged
DestinationKept ==
    \A p \in (DOMAIN fs0) \cap DestCandidates : p \in Files /\ fs[p] = fs0[p]

\* C12: whenever MoveFile returns an error, whatever the strategy and the
\* operation that failed, the source file is still at its path with its
\* original content.
C12_ErrorKeepsSource ==
    \A m \in Movers : ReturnedError(m) => SourceIntact(m)

\* the cross-device copy over an existing file failed after the destination
\* file had been created
C12_Witness ==
    /\ ReturnedError(1)
    /\ fault[1] = "copy"
    /\ strategy = "overwrite"
    /\ PlainDest \in DOMAIN fs0

\* C13: strategy rename, a file of the same name at the destination and no
\* name_<k> there: when no operation of the file system fails the source ends
\* up at destination/name_1.ext with its content, the source path is gone and
\* the file that was at destination/name.ext is unchanged.
C13_RenameOnConflict ==
    ( /\ strategy = "rename"
      /\ RegularSource(1)
      /\ (DOMAIN fs0) \cap DestCandidates = {PlainDest}
      /\ Returned(1)
      /\ fault[1] = "none" )
    => /\ moveRet[1] = "moved"
       /\ destPath[1] = NumberedDest(1)
       /\ NumberedDest(1) \in Files
       /\ fs[NumberedDest(1)] = fs0[SrcPath(1)]
       /\ SrcPath(1) \notin Files
       /\ DestinationKept

\* the conflicting move has been made, the numbered copy is in place
C13_Witness ==
    /\ strategy = "rename"
    /\ (DOMAIN fs0) \cap DestCandidates = {PlainDest}
    /\ Returned(1)
    /\ fault[1] = "none"
    /\ NumberedDest(1) \in Files
    /\ fs[PlainDest] = OldData

C14_ConcurrentRenameLosesNothing ==
    (\A m \in Movers : Returned(m)) =>
        /\ DestinationKept
        /\ \A m \in Movers :
              moveRet[m] = "moved" =>
                  \E p \in Files : Dir(p) = MoveDest /\ fs[p] = Data(m)

\* C15: strategy rename and no file of the same name at the destination: when
\* no operation of the file system fails MoveFile returns nil, the file is at
\* destination/<name> with the content of the source, and the source path is
\* gone.
C15_MoveWithoutConflict ==
    ( /\ strategy = "rename"
      /\ RegularSource(1)
      /\ PlainDest \notin DOMAIN fs0
      /\ Returned(1)
      /\ fault[1] = "none" )
    => /\ moveRet[1] = "moved"
       /\ destPath[1] = PlainDest
       /\ PlainDest \in Files
       /\ fs[PlainDest] = fs0[SrcPath(1)]
       /\ SrcPath(1) \notin Files
       /\ DestinationKept

\* the file has been moved across devices to a destination that has other files
C15_Witness ==
    /\ strategy = "rename"
    /\ PlainDest \notin DOMAIN fs0
    /\ NumberedDest(1) \in DOMAIN fs0
    /\ Returned(1)
    /\ fault[1] = "none"
    /\ copied[1]
    /\ PlainDest \in Files

C17_CrossDeviceCopySucceeds ==
    \A m \in Movers :
        /\ (Returned(m) /\ copied[m]) =>
              /\ moveRet[m] = "moved"
              /\ destPath[m] \in Files
              /\ fs[destPath[m]] = fs0[SrcPath(m)]
              /\ SrcPath(m) \notin Files \/ warned[m]
        /\ warned[m] => (copied[m] /\ Returned(m) /\ SourceIntact(m))

\* the copy succeeded, removing the source failed, the call returned nil
C17_Witness ==
    /\ Returned(1)
    /\ copied[1]
    /\ warned[1]
    /\ moveRet[1] = "moved"

\* C18: when the cross-device copy fails after the destination file was
\* created (io.Copy or Sync), MoveFile returns an error, no file is left at
\* the destination path of the call, and the source is untouched.
C18_FailedCopyLeavesNoFile ==
    \A m \in Movers :
        (Returned(m) /\ fault[m] \in {"copy", "sync"}) =>
            /\ ReturnedError(m)
            /\ destPath[m] \notin Files
            /\ SourceIntact(m)

(***************************************************************************)
(* generateUniqueName called repeatedly for one destination path            *)
(* (SpecUnique); between two calls the caller may put a file at the path    *)
(* it was given, as MoveFile does                                           *)
(***************************************************************************)
\* the destPath argument: a name with an extension and one without
UniquePaths == {PlainDest, Join(MoveDest, <<"a", "a">>)}

\* newName of the loop for the given counter, joined to the directory
numberedName(path, k) ==
    Join(Dir(path), TrimSuffix(Base(path), Ext(path)) \o <<"_">> \o Itoa(k) \o Ext(path))

\* newName of the fallback, joined to the directory
timestampName(path) ==
    Join(Dir(path), TrimSuffix(Base(path), Ext(path)) \o <<"_">> \o Timestamp \o Ext(path))

\* the files at the destination before the first call: the file at the path
\* itself and some of the numbered names, or all of them up to maxCounter
UniqueFileSets(path) ==
    { {path} \cup {numberedName(path, k) : k \in S} : S \in SUBSET (1..MaxTaken) }
        \cup { {path} \cup {numberedName(path, k) : k \in 1..maxCounter} }

InitUnique ==
    /\ InitPool /\ InitMatchOff /\ InitWatchOff /\ InitMoveOff /\ InitReadyOff
    /\ InitShutdownOff
    /\ \E path \in UniquePaths :
          \E files \in UniqueFileSets(path) :
              uniqueCalls = [path |-> path, files |-> files, filesAt |-> <<>>,
                             results |-> <<>>]

\* generateUniqueName(destPath) is called and returns; all calls of a run fall
\* into the same second of the clock
UniqueNameCall ==
    /\ uniqueCalls.path # <<>>
    /\ Len(uniqueCalls.results) < MaxCalls
    /\ uniqueCalls' =
          [uniqueCalls EXCEPT
              !.results = Append(@, generateUniqueName(uniqueCalls.files, uniqueCalls.path)),
              !.filesAt = Append(@, uniqueCalls.files)]
    /\ UNCHANGED <<matchVars, poolVars, watchVars, moveVars, readyCall, mainPc>>

\* the caller moves its file to the path the last call returned (os.Rename in
\* MoveFile)
UniqueNameTaken ==
    /\ uniqueCalls.results # <<>>
    /\ uniqueCalls.results[Len(uniqueCalls.results)] \notin uniqueCalls.files
    /\ uniqueCalls' =
          [uniqueCalls EXCEPT
              !.files = @ \cup {uniqueCalls.results[Len(uniqueCalls.results)]}]
    /\ UNCHANGED <<matchVars, poolVars, watchVars, moveVars, readyCall, mainPc>>

NextUnique ==
    \/ UniqueNameCall
    \/ UniqueNameTaken

SpecUnique == InitUnique /\ [][NextUnique]_vars

\* the numbered name k did not exist when call n was made
FreeAt(n, k) == numberedName(uniqueCalls.path, k) \notin uniqueCalls.filesAt[n]

\* C23: two calls in a row for the same existing destination path never
\* return the same path (required here only when a file has been put at the
\* path the first call returned before the second call is made); and when
\* name_1 .. name_1000 all exist the result is the timestamp name, which
\* differs from every numbered name.
C23_NeverSamePathTwice ==
    /\ \A n \in 2..Len(uniqueCalls.results) :
          uniqueCalls.results[n - 1] \in uniqueCalls.filesAt[n]
              => uniqueCalls.results[n] # uniqueCalls.results[n - 1]
    /\ \A n \in 1..Len(uniqueCalls.results) :
          (\A k \in 1..maxCounter : ~FreeAt(n, k)) =>
              /\ uniqueCalls.results[n] = timestampName(uniqueCalls.path)
              /\ \A k \in 1..maxCounter :
                    uniqueCalls.results[n] # numberedName(uniqueCalls.path, k)

\* C29: every call returns name_<k><ext> for the smallest k in 1..1000 whose
\* name does not exist, it returns the timestamp name only when all of name_1
\* .. name_1000 exist, and the path it returns is one at which no file exists
\* when it returns.
C29_SmallestFreeName ==
    \A n \in 1..Len(uniqueCalls.results) :
        /\ \A k \in 1..maxCounter :
              (FreeAt(n, k) /\ \A j \in 1..(k - 1) : ~FreeAt(n, j))
                  => uniqueCalls.results[n] = numberedName(uniqueCalls.path, k)
        /\ (\A k \in 1..maxCounter : ~FreeAt(n, k))
              <=> uniqueCalls.results[n] = timestampName(uniqueCalls.path)
        /\ uniqueCalls.results[n] \notin uniqueCalls.filesAt[n]

(***************************************************************************)
(* Rule matcher as a state machine: draw arguments, call MatchRule, then   *)
(* call it again on arguments that differ in letter case only.             *)
(***************************************************************************)
InitMatch ==
    /\ InitPool
    /\ InitWatchOff
    /\ InitMoveOff
    /\ InitReadyOff
    /\ InitUniqueOff /\ InitShutdownOff
    /\ filePath \in FilePaths
    /\ rules \in RuleLists
    /\ matchIdx = -1
    /\ baseIdx = -1
    /\ mphase = "input"

CallMatchRule ==
    /\ mphase = "input"
    /\ matchIdx' = MatchRule(filePath, rules)
    /\ baseIdx' = matchIdx'
    /\ mphase' = "matched"
    /\ UNCHANGED <<filePath, rules>>
    /\ UNCHANGED nonMatchVars

RecaseFile ==
    /\ mphase = "matched"
    /\ \E p \in CaseVariants(filePath) \ {filePath} :
          /\ filePath' = p
          /\ matchIdx' = MatchRule(p, rules)
    /\ mphase' = "recased"
    /\ UNCHANGED <<rules, baseIdx>>
    /\ UNCHANGED nonMatchVars

RecaseRules ==
    /\ mphase = "matched"
    /\ \E rl \in {LowerRules(rules), UpperRules(rules)} \ {rules} :
          /\ rules' = rl
          /\ matchIdx' = MatchRule(filePath, rl)
    /\ mphase' = "recased"
    /\ UNCHANGED <<filePath, baseIdx>>
    /\ UNCHANGED nonMatchVars

NextMatch ==
    \/ CallMatchRule
    \/ RecaseFile
    \/ RecaseRules

SpecMatch == InitMatch /\ [][NextMatch]_vars

\* a call of the extension-only MatchRule
CallMatchRuleExtOnly ==
    /\ mphase = "input"
    /\ matchIdx' = MatchRuleExtOnly(filePath, rules)
    /\ baseIdx' = matchIdx'
    /\ mphase' = "extonly"
    /\ UNCHANGED <<filePath, rules>>
    /\ UNCHANGED nonMatchVars

SpecMatchExtOnly == InitMatch /\ [][CallMatchRuleExtOnly]_vars


(***************************************************************************)
(* Claims about the rule matcher (checked under SpecMatch)                 *)
(***************************************************************************)
\* the four predicate fields of a rule, stated on the extension and the name
\* MatchRule derives from the path
ExtensionsHold(path, rule) ==
    \E k \in 1..Len(rule.Extensions) : ToLower(rule.Extensions[k]) = FileExt(path)

NameContainsHolds(path, rule) ==
    \E k \in 1..Len(rule.NameContains) :
        Contains(NameWithoutExt(path), ToLower(rule.NameContains[k]))

NameContainsAllHolds(path, rule) ==
    \A k \in 1..Len(rule.NameContainsAll) :
        Contains(NameWithoutExt(path), ToLower(rule.NameContainsAll[k]))

NameStartsWithHolds(path, rule) ==
    \E k \in 1..Len(rule.NameStartsWith) :
        HasPrefix(NameWithoutExt(path), ToLower(rule.NameStartsWith[k]))

NamePredicatesHold(path, rule) ==
    /\ rule.NameContains # <<>> => NameContainsHolds(path, rule)
    /\ rule.NameContainsAll # <<>> => NameContainsAllHolds(path, rule)
    /\ rule.NameStartsWith # <<>> => NameStartsWithHolds(path, rule)

\* every non-empty predicate field of the rule holds for the file
Satisfies(path, rule) ==
    /\ rule.Extensions # <<>> => ExtensionsHold(path, rule)
    /\ NamePredicatesHold(path, rule)

MatchRuleCalled == mphase \in {"matched", "recased"}

AllFieldsEmpty(rule) ==
    /\ rule.Extensions = <<>>
    /\ rule.NameContains = <<>>
    /\ rule.NameContainsAll = <<>>
    /\ rule.NameStartsWith = <<>>

\* C11: a rule whose predicate fields are all empty matches every file name,
\* also one without extension: when such a rule is at index i and no earlier
\* rule is satisfied, MatchRule (either variant of the repository) returns i.
C11_EmptyRuleMatchesAll ==
    mphase \in {"matched", "extonly"} =>
        \A i \in 1..Len(rules) :
            ( /\ AllFieldsEmpty(rules[i])
              /\ \A j \in 1..(i - 1) : ~Satisfies(filePath, rules[j]) )
            => matchIdx = i

\* the rule lists the file's extension written without the leading dot
DotlessExtensionListed(path, rule) ==
    \E k \in 1..Len(rule.Extensions) :
        <<".">> \o ToLower(rule.Extensions[k]) = FileExt(path)

\* C9: a file whose extension is .X matches a rule that lists the extension X
\* without the dot (REPORT.PDF matches extensions [pdf] with
\* name_starts_with [report]), the rule's name predicates holding.
C9_DotlessExtensionMatches ==
    ( /\ mphase = "matched"
      /\ Len(rules) = 1
      /\ DotlessExtensionListed(filePath, rules[1])
      /\ NamePredicatesHold(filePath, rules[1]) )
    => matchIdx = 1

\* C10: changing the letter case of the file name or of the rules' patterns
\* never changes the index MatchRule returns.
C10_CaseInsensitive ==
    mphase = "recased" => matchIdx = baseIdx

(***************************************************************************)
(* The job function of a worker (SpecJob): MatchRule, then MoveFile with    *)
(* the destination and the strategy of the rule that matched               *)
(***************************************************************************)
\* job.FilePath
JobFile == SrcPath(1)

\* job.Rules: no rule, a rule for another extension, a rule for the extension
\* of the file; the rules move to MoveDest
JobRuleLists ==
    {<<>>} \cup
    { <<Rule("r", <<e>>, NoPatterns, NoPatterns, NoPatterns, MoveDest, strat)>> :
        e \in {<<".", "a">>, <<".", "b">>}, strat \in Strategies }

\* a worker has received the job; the file may have vanished or be a
\* directory by now
InitJob ==
    /\ InitPool /\ InitWatchOff /\ InitReadyOff /\ InitUniqueOff /\ InitShutdownOff
    /\ filePath = JobFile
    /\ rules \in JobRuleLists
    /\ matchIdx = -1
    /\ baseIdx = -1
    /\ mphase = "input"
    /\ \E kind \in {"file", "dir", "missing"}, pre \in SUBSET DestCandidates,
          hasDir \in BOOLEAN :
          MoveCalls({},
                    WithDestDir(InitialFs(IF kind = "missing" THEN {} ELSE {1}, kind, pre),
                                hasDir),
                    "")

\* rule := processor.MatchRule(job.FilePath, job.Rules); if rule == nil the job
\* function returns, else it calls processor.MoveFile(job.FilePath,
\* rule.Destination, rule.ConflictStrategy, logger)
JobMatchRule ==
    /\ mphase = "input"
    /\ LET idx == MatchRule(filePath, rules) IN
          /\ matchIdx' = idx
          /\ baseIdx' = idx
          /\ IF idx = 0
             THEN UNCHANGED <<mpc, moveRet, strategy>>
             ELSE /\ mpc' = [mpc EXCEPT ![1] = "statSource"]
                  /\ moveRet' = [moveRet EXCEPT ![1] = "running"]
                  /\ strategy' = rules[idx].ConflictStrategy
    /\ mphase' = "matched"
    /\ UNCHANGED <<filePath, rules>>
    /\ UNCHANGED <<fs0, fs, destPath, fault, warned, copied>>
    /\ UNCHANGED <<poolVars, watchVars, callVars>>

NextJob ==
    \/ JobMatchRule
    \/ NextMove

SpecJob == InitJob /\ [][NextJob]_vars

\* C31: nothing to move, nothing changed. When the source path does not exist
\* or is a directory as MoveFile starts, no file or directory is created,
\* replaced, renamed or removed at any moment of the call (the destination
\* directory is not created either), MoveFile ends at the check of the source
\* and, unless os.Stat fails for another reason, returns nil; and when the job
\* matches no rule MoveFile is not called and the file system stays as it was.
C31_NothingToMoveNoChange ==
    /\ ~RegularSource(1) =>
          /\ fs = fs0
          /\ destPath[1] = <<>>
          /\ mpc[1] \in {"off", "statSource", "done"}
          /\ (Returned(1) /\ fault[1] # "stat") => moveRet[1] = "skipped"
    /\ matchIdx = 0 =>
          /\ mpc[1] = "off"
          /\ moveRet[1] = "off"
          /\ fs = fs0

\* the rule matched, the source is a directory and the destination directory
\* does not exist: MoveFile has returned nil
C31_Witness ==
    /\ matchIdx = 1
    /\ SrcPath(1) \in DOMAIN fs0
    /\ fs0[SrcPath(1)] = DirMark
    /\ MoveDest \notin DOMAIN fs0
    /\ Returned(1)
    /\ moveRet[1] = "skipped"
    /\ MoveDest \notin Files

====
